---- MODULE Spec2Model ----
(***************************************************************************)
(* A model of F1OddsProcessor (src/f1_odds_processor.py): the table        *)
(* self.df, the map self.game_odds, the odds files of one race directory   *)
(* and one action per public method.  Floating point numbers are modelled  *)
(* as exact fractions <<n, d>> with the IEEE special values NaN and        *)
(* +/-inf, so rounding is not part of the model.  SpecAlias adds a caller  *)
(* that keeps the tables the transforms return; SpecScraper is the         *)
(* F1OddsScraper (src/f1_odds_scraper.py) used as a context manager.       *)
(***************************************************************************)
EXTENDS Integers, Sequences, FiniteSets, TLC

VARIABLES
    df,          \* self.df: None or a DataFrame (columns in order, rows in order)
    game_odds,   \* self.game_odds: dict competitor name -> points
    files,       \* <<race, category>> -> text of <category>_odds.csv, or absent
    calls,       \* number of transform calls since the last load that changed the table
    last,        \* the last call: method, arguments, error raised, value returned and
                 \* what it did to the file system
    held,        \* a table a transform returned and its caller kept: its value
                 \* when returned, its value now, whether it is still self.df
    scraper      \* an F1OddsScraper and the `with` statement that uses it: where
                 \* control is, self.driver, the browsers made and their quit calls

vars == <<df, game_odds, files, calls, last, held, scraper>>

----------------------------------------------------------------------------
(* Bounds of the model.                                                    *)

\* most rows an odds file has
MaxRows == 2
\* most table-changing transform calls (average / normalize / expected
\* points) after a load
MaxCalls == 3

----------------------------------------------------------------------------
(* Floating point values: <<n, d>> with d > 0 is the number n/d in lowest  *)
(* terms, <<0, 0>> is NaN, <<1, 0>> is +inf and <<-1, 0>> is -inf.         *)

NaN == <<0, 0>>
PosInf == <<1, 0>>
NegInf == <<-1, 0>>

IsNaN(v) == v = NaN
IsFinite(v) == v[2] > 0
Abs(i) == IF i < 0 THEN -i ELSE i
Sign(v) == IF v[1] > 0 THEN 1 ELSE IF v[1] < 0 THEN -1 ELSE 0

RECURSIVE GCD(_, _)
GCD(a, b) == IF b = 0 THEN a ELSE GCD(b, a % b)

\* the fraction n/d (d # 0) in lowest terms with a positive denominator
Norm(n, d) ==
    LET g == GCD(Abs(n), Abs(d))
        s == IF d < 0 THEN -1 ELSE 1
    IN  <<(s * n) \div g, (s * d) \div g>>

Num(i) == <<i, 1>>

\* (n1/d1) * (n2/d2) in lowest terms, for fractions in lowest terms with
\* d1, d2 > 0; the common factors are cancelled before multiplying
Frac(n1, d1, n2, d2) ==
    LET g1 == GCD(Abs(n1), d2)
        g2 == GCD(Abs(n2), d1)
    IN  IF n1 = 0 \/ n2 = 0 THEN <<0, 1>>
        ELSE <<(n1 \div g1) * (n2 \div g2), (d1 \div g2) * (d2 \div g1)>>

FAdd(a, b) ==
    IF IsNaN(a) \/ IsNaN(b) THEN NaN
    ELSE IF ~IsFinite(a) THEN (IF ~IsFinite(b) /\ b # a THEN NaN ELSE a)
    ELSE IF ~IsFinite(b) THEN b
    ELSE LET g == GCD(a[2], b[2])
         IN  Norm(a[1] * (b[2] \div g) + b[1] * (a[2] \div g), (a[2] \div g) * b[2])

FMul(a, b) ==
    IF IsNaN(a) \/ IsNaN(b) THEN NaN
    ELSE IF IsFinite(a) /\ IsFinite(b) THEN Frac(a[1], a[2], b[1], b[2])
    ELSE IF Sign(a) * Sign(b) = 0 THEN NaN
    ELSE <<Sign(a) * Sign(b), 0>>

\* numpy / IEEE division: x/0 is +/-inf, 0/0 is NaN, nothing raises
FDiv(a, b) ==
    IF IsNaN(a) \/ IsNaN(b) THEN NaN
    ELSE IF ~IsFinite(b) THEN (IF IsFinite(a) THEN Num(0) ELSE NaN)
    ELSE IF b[1] = 0 THEN (IF Sign(a) = 0 THEN NaN ELSE <<Sign(a), 0>>)
    ELSE IF ~IsFinite(a) THEN <<Sign(a) * Sign(b), 0>>
    ELSE Frac(a[1], a[2], b[2] * Sign(b), Abs(b[1]))

\* a <= 0 on floats (False for NaN)
FLeZero(a) == ~IsNaN(a) /\ a[1] <= 0

RECURSIVE RatLess(_, _, _, _)
\* n1/d1 < n2/d2 for d1, d2 > 0, by integer parts and then remainders
RatLess(n1, d1, n2, d2) ==
    LET q1 == n1 \div d1
        q2 == n2 \div d2
        r1 == n1 % d1
        r2 == n2 % d2
    IN  IF q1 # q2 THEN q1 < q2
        ELSE IF r2 = 0 THEN FALSE
        ELSE IF r1 = 0 THEN TRUE
        ELSE RatLess(d2, r2, d1, r1)

\* a < b and a <= b on finite values
FLess(a, b) == RatLess(a[1], a[2], b[1], b[2])
FLeq(a, b) == ~FLess(b, a)

----------------------------------------------------------------------------
(* Python values an odds cell can hold.  A string is modelled by what it   *)
(* spells: "N/A", the decimal text of a number, "inf", a fraction "a/b",   *)
(* or a word; a float carries its value.                                   *)

PyFloat(v) == [t |-> "float", k |-> "", v |-> v]
PyStr(k, v) == [t |-> "str", k |-> k, v |-> v]
PyNone == [t |-> "None", k |-> "", v |-> NaN]
PyList == [t |-> "list", k |-> "", v |-> NaN]
PyDict == [t |-> "dict", k |-> "", v |-> NaN]

StrNA == PyStr("N/A", NaN)
StrEmpty == PyStr("", NaN)
StrWord == PyStr("word", NaN)
StrInf == PyStr("inf", PosInf)
StrNum(i) == PyStr("num", Num(i))
StrFrac(a, b) == PyStr("frac", <<a, b>>)

\* pd.isna on a scalar: None and a float NaN are missing, a string never is
pd_isna(x) ==
    \/ x.t = "None"
    \/ x.t = "float" /\ IsNaN(x.v)

\* `odds == "N/A" or pd.isna(odds)` raises for a list: pd.isna gives an array,
\* whose truth value is ambiguous
IsNaTestRaises(x) == x.t = "list"

\* float(x): the value, or the error the call raises
float(x) ==
    IF x.t = "float" THEN [err |-> "ok", v |-> x.v]
    ELSE IF x.t = "str" /\ x.k \in {"num", "inf", "nan"} THEN [err |-> "ok", v |-> x.v]
    ELSE IF x.t = "str" THEN [err |-> "ValueError", v |-> NaN]
    ELSE [err |-> "TypeError", v |-> NaN]

\* odds_to_probability with 1/odds in place of 1/(odds + 1)
odds_to_probability_NoStake(odds) ==
    IF IsNaTestRaises(odds) THEN NaN
    ELSE IF odds = StrNA \/ pd_isna(odds) THEN NaN
    ELSE LET f == float(odds) IN
         IF f.err # "ok" THEN NaN
         ELSE IF FLeZero(f.v) THEN NaN
         ELSE FDiv(Num(1), f.v)

\* odds_to_probability without the `odds <= 0` test
odds_to_probability_NoSignTest(odds) ==
    IF IsNaTestRaises(odds) THEN NaN
    ELSE IF odds = StrNA \/ pd_isna(odds) THEN NaN
    ELSE LET f == float(odds) IN
         IF f.err # "ok" THEN NaN
         ELSE FDiv(Num(1), FAdd(f.v, Num(1)))

\* F1OddsProcessor.odds_to_probability (the same function is in quali_bets.py)
odds_to_probability(odds) ==
    IF IsNaTestRaises(odds) THEN NaN
    ELSE IF odds = StrNA \/ pd_isna(odds) THEN NaN
    ELSE LET f == float(odds) IN
         IF f.err # "ok" THEN NaN
         ELSE IF FLeZero(f.v) THEN NaN
         ELSE FDiv(Num(1), FAdd(f.v, Num(1)))

\* the error raised inside the try block of odds_to_probability, "ok" if none
RaisedInTry(odds) ==
    IF IsNaTestRaises(odds) THEN "ValueError"
    ELSE IF odds = StrNA \/ pd_isna(odds) THEN "ok"
    ELSE float(odds).err

\* the handler of odds_to_probability is a bare `except:`, which catches
\* every error
Catches_ValueErrorOnly(err) == err = "ValueError"
Catches(err) == TRUE

\* the error that leaves odds_to_probability, "ok" if none
Escapes(odds) ==
    LET e == RaisedInTry(odds)
    IN  IF e # "ok" /\ ~Catches(e) THEN e ELSE "ok"

----------------------------------------------------------------------------
(* Column names.  A name is its text split at a trailing "_probability",   *)
(* so that endswith('_probability') and replace('_probability', '') are    *)
(* computed on the name itself.                                            *)

Col(base, suffix) == [base |-> base, suffix |-> suffix]
DriverCol == Col("Driver", "")
AverageCol == Col("average", "_probability")
NormalizedCol == Col("normalized", "_probability")
PointsCol == Col("game_points", "")
XPtsCol == Col("xPts", "")

\* col.endswith('_probability')
EndsWithProbability(c) == c.suffix = "_probability"
\* the provider column itself as the target of the conversion
ProbabilityColOf_Overwrite(c) == c
\* provider + '_probability' for a provider column
ProbabilityColOf(c) == Col(c.base, "_probability")
\* col.replace('_probability', '')
StripProbability(c) == c.base

----------------------------------------------------------------------------
(* Sequences.                                                              *)

Range(s) == {s[i] : i \in DOMAIN s}

RECURSIVE SumSeq(_)
\* sum of a sequence of floats
SumSeq(s) == IF s = <<>> THEN Num(0) ELSE FAdd(s[1], SumSeq(Tail(s)))

NotNaN(v) == ~IsNaN(v)

\* a sum that does not skip NaN entries
SeriesSum_KeepNa(s) == SumSeq(s)

\* Series.sum(): NaN entries are skipped, an empty sum is 0
SeriesSum(s) == SumSeq(SelectSeq(s, NotNaN))

\* mean(skipna=True) of a sequence of floats: NaN when nothing is defined
MeanSkipNa(s) ==
    LET defined == SelectSeq(s, NotNaN)
    IN  IF defined = <<>> THEN NaN
        ELSE FDiv(SumSeq(defined), Num(Len(defined)))

----------------------------------------------------------------------------
(* DataFrames: the columns in order and the rows in order, each row a      *)
(* function from the column names to the cell values.                      *)

NoneDf == [none |-> TRUE, columns |-> <<>>, rows |-> <<>>]

HasColumn(d, c) == c \in Range(d.columns)

\* the column c of d as a sequence
Column(d, c) == [i \in DOMAIN d.rows |-> d.rows[i][c]]

\* d[c] = vals, in place: an existing column keeps its position
SetColumn(d, c, vals) ==
    [none |-> FALSE,
     columns |-> IF HasColumn(d, c) THEN d.columns ELSE Append(d.columns, c),
     rows |-> [i \in DOMAIN d.rows |->
                 [x \in DOMAIN d.rows[i] \cup {c} |->
                     IF x = c THEN vals[i] ELSE d.rows[i][x]]]]

\* the rows of d in the order given by the index sequence idx
TakeRows(d, idx) ==
    [none |-> FALSE, columns |-> d.columns,
     rows |-> [k \in DOMAIN idx |-> d.rows[idx[k]]]]

\* d[cols]: the listed columns only
Project(d, cols) ==
    [none |-> FALSE, columns |-> cols,
     rows |-> [i \in DOMAIN d.rows |-> [c \in Range(cols) |-> d.rows[i][c]]]]

----------------------------------------------------------------------------
(* The odds files.  A file is CSV text: a header "Driver" plus one column  *)
(* per provider, and one line per competitor.                              *)

Providers == <<"B3", "SK">>
DriverNames == <<"Max Verstappen", "Lando Norris", "Lewis Hamilton", "Charles Leclerc">>
Races == {"australian-gp", "chinese-gp"}
Categories == {"qualifying"}

AbsentFile == [absent |-> TRUE, rows |-> <<>>]

\* the texts of the provider cells of one line
LineChoices ==
    { <<StrNum(1), StrNum(3)>>,
      <<StrNum(3), StrNA>>,
      <<StrEmpty, StrFrac(1, 2)>>,
      <<StrInf, StrWord>>,
      <<StrNum(-3), StrNum(0)>> }

\* the files with n lines; line i is about DriverNames[i]
FilesOfLen(n) ==
    { [absent |-> FALSE,
       rows |-> [i \in 1..n |->
                   [Driver |-> DriverNames[i],
                    cells |-> [k \in DOMAIN Providers |-> ls[i][k]]]]] :
      ls \in [1..n -> LineChoices] }

OddsFiles == UNION { FilesOfLen(n) : n \in 0..MaxRows }

\* pandas.read_csv: "" and "N/A" are missing values; a column whose other
\* cells all spell numbers becomes a float column, any other column keeps
\* its texts
IsNaText(x) == x.k \in {"", "N/A"}
IsNumberText(x) == x.k \in {"num", "inf"}
ColumnIsNumeric(f, k) ==
    \A i \in DOMAIN f.rows :
        IsNaText(f.rows[i].cells[k]) \/ IsNumberText(f.rows[i].cells[k])
ParseCell(f, i, k) ==
    LET x == f.rows[i].cells[k]
    IN  IF IsNaText(x) THEN PyFloat(NaN)
        ELSE IF ColumnIsNumeric(f, k) THEN PyFloat(x.v)
        ELSE x
read_csv(f) ==
    [none |-> FALSE,
     columns |-> <<DriverCol>> \o [k \in DOMAIN Providers |-> Col(Providers[k], "")],
     rows |-> [i \in DOMAIN f.rows |->
                 [c \in {DriverCol} \cup {Col(Providers[k], "") : k \in DOMAIN Providers} |->
                     IF c = DriverCol THEN f.rows[i].Driver
                     ELSE ParseCell(f, i, CHOOSE k \in DOMAIN Providers : Providers[k] = c.base)]]]

----------------------------------------------------------------------------
(* The computations of the methods, on table values.                       *)

IsProviderColumn(c) == c # DriverCol

RECURSIVE AddProbabilityColumns(_, _)
\* process_betting_odds: for provider in provider_columns:
\*     df[provider + '_probability'] = df[provider].apply(odds_to_probability)
AddProbabilityColumns(d, provider_columns) ==
    IF provider_columns = <<>> THEN d
    ELSE LET provider == Head(provider_columns)
             converted == [i \in DOMAIN d.rows |-> odds_to_probability(d.rows[i][provider])]
         IN  AddProbabilityColumns(SetColumn(d, ProbabilityColOf(provider), converted),
                                   Tail(provider_columns))

LoadedTable(f) ==
    LET d == read_csv(f)
    IN  AddProbabilityColumns(d, SelectSeq(d.columns, IsProviderColumn))

\* calculate_average_probabilities: the mean over every column whose name
\* ends with '_probability'
WithAverage(d) ==
    LET probability_columns == SelectSeq(d.columns, EndsWithProbability)
    IN  SetColumn(d, AverageCol,
            [i \in DOMAIN d.rows |->
                MeanSkipNa([k \in DOMAIN probability_columns |->
                              d.rows[i][probability_columns[k]]])])

\* the normalized value as a fraction of 1, not scaled to a percentage
Normalized_NoScale(average, total_prob) == FDiv(average, total_prob)

\* the normalized value with a zero total turned into 0
Normalized_ZeroForZeroTotal(average, total_prob) ==
    IF total_prob = Num(0) THEN Num(0)
    ELSE FMul(FDiv(average, total_prob), Num(100))

\* normalize_probabilities, after the average column is there
Normalized(average, total_prob) == FMul(FDiv(average, total_prob), Num(100))
WithNormalized(d) ==
    LET d1 == IF HasColumn(d, AverageCol) THEN d ELSE WithAverage(d)
        total_prob == SeriesSum(Column(d1, AverageCol))
    IN  SetColumn(d1, NormalizedCol,
            [i \in DOMAIN d1.rows |-> Normalized(d1.rows[i][AverageCol], total_prob)])

\* a lookup that gives 0 for a key the dict lacks
MapDict_ZeroDefault(g, key) == IF key \in DOMAIN g THEN Num(g[key]) ELSE Num(0)

\* Series.map(dict): the entry of the key, NaN for a key the dict lacks
MapDict(g, key) == IF key \in DOMAIN g THEN Num(g[key]) ELSE NaN

\* calculate_expected_points: df[points_column_name] = df['Driver'].map(game_odds)
WithPoints(d, g) ==
    SetColumn(d, PointsCol, [i \in DOMAIN d.rows |-> MapDict(g, d.rows[i][DriverCol])])

\* df['xPts'] = df['normalized_probability'] * df[points_column_name] / 100
ExpectedPoints(normalized, points) == FDiv(FMul(normalized, points), Num(100))
WithXPts(d) ==
    SetColumn(d, XPtsCol,
        [i \in DOMAIN d.rows |->
            ExpectedPoints(d.rows[i][NormalizedCol], d.rows[i][PointsCol])])

\* sort_values(by=c, ascending=False) with the default sort kind, which is
\* not stable: the rows with a number come first, largest first and ties in
\* any order, then the rows with NaN in the order they had.  The result is
\* a new table.
Injective(f) == \A a, b \in DOMAIN f : f[a] = f[b] => a = b
IsDescendingOrder(d, c, idx) ==
    \A a, b \in DOMAIN idx :
        a < b =>
            LET x == d.rows[idx[a]][c]
                y == d.rows[idx[b]][c]
            IN  \/ IsNaN(y) /\ (IsNaN(x) => idx[a] < idx[b])
                \/ ~IsNaN(x) /\ ~IsNaN(y) /\ FLeq(y, x)
SortOutcomes(d, c) ==
    { TakeRows(d, idx) :
        idx \in { f \in [DOMAIN d.rows -> DOMAIN d.rows] :
                    Injective(f) /\ IsDescendingOrder(d, c, f) } }

\* DataFrame.head(n): the first n rows, or all but the last -n for n < 0
HeadCount_OneMore(len, n) ==
    IF n >= 0 THEN (IF n + 1 < len THEN n + 1 ELSE len)
    ELSE (IF len + n > 0 THEN len + n ELSE 0)
HeadCount(len, n) ==
    IF n >= 0 THEN (IF n < len THEN n ELSE len)
    ELSE (IF len + n > 0 THEN len + n ELSE 0)
head(d, n) == TakeRows(d, [k \in 1..HeadCount(Len(d.rows), n) |-> k])

----------------------------------------------------------------------------
(* The record of a call.                                                   *)

NoRet == [kind |-> "None"]
SelfDf == [kind |-> "self.df"]

Call(op, arg, err, msg, ret, effects) ==
    [op |-> op, arg |-> arg, err |-> err, msg |-> msg, ret |-> ret, effects |-> effects]

Returned(op, arg, ret, effects) == Call(op, arg, "ok", "", ret, effects)
Raised(op, arg, err, msg, effects) == Call(op, arg, err, msg, NoRet, effects)

MsgNoFile == "Odds file not found"
MsgNoDataToSave == "No data to save. Process betting odds first."
MsgNoDataCall == "No data loaded. Call process_betting_odds first."
MsgNoDataProcess == "No data loaded. Process betting odds first."
MsgNoGameOdds == "Game odds not set. Call set_game_odds first."
MsgDriverNotFound == "Driver not found in data"
MsgKey == "column"

----------------------------------------------------------------------------
(* Game odds a caller sets: none, or the map of the tests.                 *)

EmptyDict == [n \in {} |-> 0]
TestOdds ==
    [n \in {"Max Verstappen", "Lewis Hamilton", "Charles Leclerc"} |->
        IF n = "Max Verstappen" THEN 10 ELSE IF n = "Lewis Hamilton" THEN 12 ELSE 14]
GameOddsChoices == {EmptyDict, TestOdds}

\* the names a caller asks about: competitors of the files, and a name that
\* differs from one of them in case only
LookupNames == {DriverNames[1], DriverNames[2], "max verstappen"}
\* the n of get_top_drivers(n)
TopCounts == {-1, 1, MaxRows + 1}

----------------------------------------------------------------------------
(* The scraper after construction.  Browsers are numbered in the order     *)
(* webdriver.Chrome makes them; self.driver is 0 for None.                 *)

\* the browsers one scraper may start
MaxBrowsers == 2
Browsers == 1 .. MaxBrowsers

ScrapeOutcomes == {"none", "table", "empty", "failed"}

\* the categories a scraper is asked for
ScrapeCategories == {"qualifying", "race-winner"}

\* F1OddsScraper.__init__: self.driver = None
NewScraper ==
    [pc |-> "new", driver |-> 0, used |-> 0, browsers |-> 0,
     quits |-> [b \in Browsers |-> 0],
     how |-> "none",
     scraped |-> [c \in ScrapeCategories |-> "none"]]

----------------------------------------------------------------------------
(* Tables kept by a caller.                                                *)

\* The caller's reference to a returned table.  A transform returns self.df
\* itself, so the caller's table and the processor's are one object until
\* self.df is bound to another object.
NoHeld == [has |-> FALSE, alias |-> FALSE, snap |-> NoneDf, cur |-> NoneDf]

\* the kept table after self.df was changed in place to e
HeldInPlace(h, e) == IF h.alias THEN [h EXCEPT !.cur = e] ELSE h

\* the kept table after self.df was bound to a new object
HeldRebound(h) == [h EXCEPT !.alias = FALSE]

\* sort_values that sorts the table it is called on
SortedObject_InPlace(unsorted, sorted) == sorted
\* df.sort_values(...) without inplace=True: the table it is called on
\* keeps its row order, the sorted rows are in the new table
SortedObject(unsorted, sorted) == unsorted

----------------------------------------------------------------------------
(* The state after construction: no table, no game odds.  The race         *)
(* directory of the first race holds one odds file.                        *)

Init ==
    /\ df = NoneDf
    /\ game_odds = EmptyDict
    /\ \E f \in OddsFiles :
          files = [k \in Races \X Categories |->
                      IF k[1] = "australian-gp" THEN f ELSE AbsentFile]
    /\ calls = 0
    /\ last = Call("__init__", <<>>, "ok", "", NoRet, {})
    /\ held = NoHeld
    /\ scraper = NewScraper

\* a test for None that never finds it
IsNone_Never(d) == FALSE
\* `self.df is None`
IsNone(d) == d.none
\* a test for game odds that accepts an empty map
GameOddsNotSet_Never(g) == FALSE
\* `not self.game_odds`
GameOddsNotSet(g) == DOMAIN g = {}
\* an existence test that accepts a missing file
FileExists_Always(fs, race, category) == TRUE
\* file_path.exists()
FileExists(fs, race, category) == ~fs[<<race, category>>].absent

\* the built-in exception classes raised, each with its base classes; an
\* `except` clause for a class catches exactly the errors that have it
Bases(kind) ==
    IF kind = "FileNotFoundError" THEN {"FileNotFoundError", "OSError", "Exception"}
    ELSE IF kind = "ValueError" THEN {"ValueError", "Exception"}
    ELSE IF kind = "KeyError" THEN {"KeyError", "LookupError", "Exception"}
    ELSE {}
\* a caller can tell the two kinds apart by class
Distinguishable(a, b) == a \notin Bases(b) /\ b \notin Bases(a)

\* the call counter after a transform took the table from d to e
Count(d, e) == IF e = d THEN calls ELSE calls + 1

set_game_odds ==
    \E odds_dict \in GameOddsChoices :
        /\ game_odds' = odds_dict
        /\ last' = Returned("set_game_odds", <<>>, NoRet, {})
        /\ UNCHANGED <<df, files, calls, held, scraper>>

process_betting_odds ==
    \E race \in Races, category \in Categories :
        LET mkdir == {<<"mkdir", race>>}   \* get_race_dir
        IN  IF ~FileExists(files, race, category)
            THEN /\ last' = Raised("process_betting_odds", <<race, category>>,
                                   "FileNotFoundError", MsgNoFile, mkdir)
                 /\ UNCHANGED <<df, game_odds, files, calls, held, scraper>>
            ELSE /\ df' = LoadedTable(files[<<race, category>>])
                 /\ calls' = 0
                 /\ last' = Returned("process_betting_odds", <<race, category>>, SelfDf, mkdir)
                 /\ held' = HeldRebound(held)
                 /\ UNCHANGED <<game_odds, files, scraper>>

save_processed_data ==
    \E race \in Races, category \in Categories :
        /\ IF IsNone(df)
           THEN last' = Raised("save_processed_data", <<race, category>>,
                               "ValueError", MsgNoDataToSave, {})
           ELSE last' = Returned("save_processed_data", <<race, category>>, NoRet,
                                 {<<"mkdir", race>>, <<"to_csv", race, category>>})
        /\ UNCHANGED <<df, game_odds, files, calls, held, scraper>>

calculate_average_probabilities ==
    IF IsNone(df)
    THEN /\ last' = Raised("calculate_average_probabilities", <<>>,
                           "ValueError", MsgNoDataCall, {})
         /\ UNCHANGED <<df, game_odds, files, calls, held, scraper>>
    ELSE /\ calls < MaxCalls
         /\ df' = WithAverage(df)
         /\ calls' = Count(df, df')
         /\ last' = Returned("calculate_average_probabilities", <<>>, SelfDf, {})
         /\ held' = HeldInPlace(held, df')
         /\ UNCHANGED <<game_odds, files, scraper>>

normalize_probabilities ==
    IF IsNone(df)
    THEN /\ last' = Raised("normalize_probabilities", <<>>,
                           "ValueError", MsgNoDataCall, {})
         /\ UNCHANGED <<df, game_odds, files, calls, held, scraper>>
    ELSE /\ calls < MaxCalls
         /\ df' = WithNormalized(df)
         /\ calls' = Count(df, df')
         /\ last' = Returned("normalize_probabilities", <<>>, SelfDf, {})
         /\ held' = HeldInPlace(held, df')
         /\ UNCHANGED <<game_odds, files, scraper>>

calculate_expected_points ==
    IF IsNone(df)
    THEN /\ last' = Raised("calculate_expected_points", <<>>,
                           "ValueError", MsgNoDataCall, {})
         /\ UNCHANGED <<df, game_odds, files, calls, held, scraper>>
    ELSE IF GameOddsNotSet(game_odds)
    THEN /\ last' = Raised("calculate_expected_points", <<>>,
                           "ValueError", MsgNoGameOdds, {})
         /\ UNCHANGED <<df, game_odds, files, calls, held, scraper>>
    ELSE /\ calls < MaxCalls
         /\ UNCHANGED <<game_odds, files, scraper>>
         /\ LET d1 == WithPoints(df, game_odds)
            IN  IF ~HasColumn(d1, NormalizedCol)
                THEN \* the points column is already in the table when
                     \* df['normalized_probability'] raises
                     /\ df' = d1
                     /\ calls' = Count(df, df')
                     /\ last' = Raised("calculate_expected_points", <<>>,
                                       "KeyError", MsgKey, {})
                     /\ held' = HeldInPlace(held, df')
                ELSE /\ df' \in SortOutcomes(WithXPts(d1), NormalizedCol)
                     /\ calls' = Count(df, df')
                     /\ last' = Returned("calculate_expected_points", <<>>, SelfDf, {})
                     /\ held' = HeldRebound(
                                  HeldInPlace(held, SortedObject(WithXPts(d1), df')))

\* the text of a name in upper case, for the names of the model
Upper(name) ==
    IF name \in {"max verstappen", "Max Verstappen"} THEN "MAX VERSTAPPEN" ELSE name
\* a match that ignores case
MatchingRows_IgnoreCase(d, driver_name) ==
    SelectSeq(d.rows, LAMBDA r : Upper(r[DriverCol]) = Upper(driver_name))

\* the rows of d whose Driver is driver_name, in order
MatchingRows(d, driver_name) ==
    SelectSeq(d.rows, LAMBDA r : r[DriverCol] = driver_name)

DriverAnalysis(d, g, driver_name) ==
    LET row == MatchingRows(d, driver_name)[1]
        cols == { c \in Range(d.columns) : EndsWithProbability(c) /\ c # NormalizedCol }
    IN  [kind |-> "dict",
         driver |-> driver_name,
         normalized_probability |-> row[NormalizedCol],
         expected_points |-> IF HasColumn(d, XPtsCol) THEN PyFloat(row[XPtsCol]) ELSE PyNone,
         game_odds |-> IF driver_name \in DOMAIN g THEN PyFloat(Num(g[driver_name])) ELSE PyNone,
         provider_probabilities |->
             [key \in {StripProbability(c) : c \in cols} |->
                 row[CHOOSE c \in cols : StripProbability(c) = key]]]

get_driver_analysis ==
    \E driver_name \in LookupNames :
        /\ UNCHANGED <<df, game_odds, files, calls, held, scraper>>
        /\ IF IsNone(df)
           THEN last' = Raised("get_driver_analysis", driver_name,
                               "ValueError", MsgNoDataProcess, {})
           ELSE IF MatchingRows(df, driver_name) = <<>>
           THEN last' = Raised("get_driver_analysis", driver_name,
                               "ValueError", MsgDriverNotFound, {})
           ELSE IF ~HasColumn(df, NormalizedCol)
           THEN last' = Raised("get_driver_analysis", driver_name, "KeyError", MsgKey, {})
           ELSE last' = Returned("get_driver_analysis", driver_name,
                                 DriverAnalysis(df, game_odds, driver_name), {})

TopColumns == <<DriverCol, NormalizedCol, XPtsCol>>

get_top_drivers ==
    \E n \in TopCounts :
        /\ UNCHANGED <<df, game_odds, files, calls, held, scraper>>
        /\ IF IsNone(df)
           THEN last' = Raised("get_top_drivers", n, "ValueError", MsgNoDataProcess, {})
           ELSE IF \E c \in Range(TopColumns) : ~HasColumn(df, c)
           THEN last' = Raised("get_top_drivers", n, "KeyError", MsgKey, {})
           ELSE last' = Returned("get_top_drivers", n,
                                 [kind |-> "DataFrame", df |-> Project(head(df, n), TopColumns)],
                                 {})

Next ==
    \/ set_game_odds
    \/ process_betting_odds
    \/ save_processed_data
    \/ calculate_average_probabilities
    \/ normalize_probabilities
    \/ calculate_expected_points
    \/ get_driver_analysis
    \/ get_top_drivers

Spec == Init /\ [][Next]_vars

----------------------------------------------------------------------------
(* The processor with a caller that keeps the tables the transforms        *)
(* return, as in `df = processor.calculate_average_probabilities()`.       *)

\* the caller stores the table the last transform returned
keep_reference ==
    /\ last.err = "ok"
    /\ last.ret = SelfDf
    /\ held' = [has |-> TRUE, alias |-> TRUE, snap |-> df, cur |-> df]
    /\ UNCHANGED <<df, game_odds, files, calls, last, scraper>>

NextAlias ==
    \/ process_betting_odds
    \/ calculate_average_probabilities
    \/ normalize_probabilities
    \/ calculate_expected_points
    \/ keep_reference

\* the odds files of MaxRows lines with numbers and "N/A" only
AliasLines == { <<StrNum(1), StrNum(3)>>, <<StrNum(3), StrNA>> }
AliasFiles ==
    { f \in FilesOfLen(MaxRows) : \A i \in DOMAIN f.rows : f.rows[i].cells \in AliasLines }

\* the state after construction and set_game_odds
InitAlias ==
    /\ df = NoneDf
    /\ game_odds = TestOdds
    /\ \E f \in AliasFiles :
          files = [k \in Races \X Categories |->
                      IF k[1] = "australian-gp" THEN f ELSE AbsentFile]
    /\ calls = 0
    /\ last = Call("__init__", <<>>, "ok", "", NoRet, {})
    /\ held = NoHeld
    /\ scraper = NewScraper

SpecAlias == InitAlias /\ [][NextAlias]_vars

----------------------------------------------------------------------------
(* F1OddsScraper used as a context manager (src/f1_odds_scraper.py), as in *)
(* `with F1OddsScraper(...) as scraper:` of scrape_and_process_odds.py.    *)
(* scraper.pc is where control is: "new" outside any block, "body" inside  *)
(* the block, "unwinding" while an error leaves the block, "left" after    *)
(* __exit__, "deleted" after the destructor.  The quit of the Chrome       *)
(* driver is taken not to raise.                                           *)

\* the race the scraper was made for
ScraperRace == "australian-gp"

\* what a scrape saves: a table of one competitor's odds, numbers or "N/A"
ScrapedTables ==
    { f \in FilesOfLen(1) : \A i \in DOMAIN f.rows : f.rows[i].cells \in AliasLines }

\* setup_driver: webdriver.Chrome may fail, and so may implicitly_wait and
\* execute_script on the new browser, after self.driver was assigned
SetupOutcomes(s) ==
    LET b == s.browsers + 1
        made == [s EXCEPT !.driver = b, !.browsers = b]
    IN  { [s |-> s, err |-> "WebDriverException"],
          [s |-> made, err |-> "WebDriverException"],
          [s |-> made, err |-> "ok"] }

\* `if not self.driver: self.setup_driver()`
EnsureDriver(s) ==
    IF s.driver # 0 THEN {[s |-> s, err |-> "ok"]} ELSE SetupOutcomes(s)

\* a close_driver that quits the browser and keeps the handle
HandleAfterQuit_Kept(d) == d
\* close_driver: self.driver = None after the quit
HandleAfterQuit(d) == 0

\* close_driver: `if self.driver: self.driver.quit(); self.driver = None`
Closed(s) ==
    IF s.driver # 0
    THEN [s EXCEPT !.quits[s.driver] = @ + 1, !.driver = HandleAfterQuit(s.driver)]
    ELSE s

\* __enter__, called by the `with` statement; when it raises, the block is
\* not entered and __exit__ is not called
with_enter ==
    /\ scraper.pc \in {"new", "left"}
    /\ scraper.driver # 0 \/ scraper.browsers < MaxBrowsers
    /\ \E o \in EnsureDriver(scraper) :
          scraper' = IF o.err = "ok"
                     THEN [o.s EXCEPT !.pc = "body", !.used = o.s.driver,
                                      !.how = "none",
                                      !.scraped = [c \in ScrapeCategories |-> "none"]]
                     ELSE [o.s EXCEPT !.pc = "new"]
    /\ UNCHANGED <<df, game_odds, files, calls, last, held>>

\* scrape_odds(category) in the block: a table (saved to the race
\* directory), no data, or an error, which the caller catches in the block
\* or lets leave the block
scrape_odds ==
    /\ scraper.pc = "body"
    /\ scraper.driver # 0 \/ scraper.browsers < MaxBrowsers
    /\ \E category \in ScrapeCategories, o \in EnsureDriver(scraper) :
          IF o.err # "ok"
          THEN /\ \E caught \in BOOLEAN :
                     scraper' = [o.s EXCEPT !.scraped[category] = "failed",
                                           !.pc = IF caught THEN "body" ELSE "unwinding"]
               /\ UNCHANGED files
          ELSE \/ \E t \in ScrapedTables :
                     /\ scraper' = [o.s EXCEPT !.scraped[category] = "table"]
                     /\ files' = [files EXCEPT ![<<ScraperRace, category>>] = t]
               \/ /\ scraper' = [o.s EXCEPT !.scraped[category] = "empty"]
                  /\ UNCHANGED files
               \/ /\ \E caught \in BOOLEAN :
                        scraper' = [o.s EXCEPT !.scraped[category] = "failed",
                                              !.pc = IF caught THEN "body" ELSE "unwinding"]
                  /\ UNCHANGED files
    /\ UNCHANGED <<df, game_odds, calls, last, held>>

\* pd.DataFrame(): what scrape_odds returns when the page has no odds
EmptyTable == [absent |-> FALSE, rows |-> <<>>]

\* one scrape_odds(category) call from scraper s and files fs: the scraper
\* and files after it, the error it raised and the table it returned
ScrapeAttempts(s, fs, category) ==
    UNION { IF o.err # "ok"
            THEN { [s |-> [o.s EXCEPT !.scraped[category] = "failed"],
                    files |-> fs, err |-> o.err, table |-> EmptyTable] }
            ELSE { [s |-> [o.s EXCEPT !.scraped[category] = "table"],
                    files |-> [fs EXCEPT ![<<ScraperRace, category>>] = t],
                    err |-> "ok", table |-> t] : t \in ScrapedTables }
                 \cup { [s |-> [o.s EXCEPT !.scraped[category] = "empty"],
                          files |-> fs, err |-> "ok", table |-> EmptyTable] }
                 \cup { [s |-> [o.s EXCEPT !.scraped[category] = "failed"],
                          files |-> fs, err |-> e, table |-> EmptyTable] :
                        e \in {"TimeoutException", "Exception"} }
          : o \in EnsureDriver(s) }

\* a handler that catches the timeout only
ScrapeCatches_TimeoutOnly(err) == err = "TimeoutException"
\* `except Exception` of scrape_all_categories: every error a scrape raises
\* is an Exception
ScrapeCatches(err) ==
    err \in {"TimeoutException", "WebDriverException", "Exception"}

\* results[category] = table
Put(results, category, table) ==
    [c \in DOMAIN results \cup {category} |->
        IF c = category THEN table ELSE results[c]]

RECURSIVE ScrapeLoop(_, _, _, _, _, _)
\* the loop of scrape_all_categories from the k-th category on: every way it
\* can end, with the results so far and the scrape_odds calls made
ScrapeLoop(s, fs, categories, k, results, attempts) ==
    IF k > Len(categories)
    THEN { [s |-> s, files |-> fs, err |-> "ok",
            results |-> results, attempts |-> attempts] }
    ELSE UNION {
           LET made == attempts \cup {<<"scrape_odds", k, categories[k], a.err>>}
           IN  IF a.err = "ok"
               THEN ScrapeLoop(a.s, a.files, categories, k + 1,
                               Put(results, categories[k], a.table), made)
               ELSE IF ScrapeCatches(a.err)
               THEN ScrapeLoop(a.s, a.files, categories, k + 1, results, made)
               ELSE { [s |-> a.s, files |-> a.files, err |-> a.err,
                       results |-> results, attempts |-> made] }
           : a \in ScrapeAttempts(s, fs, categories[k]) }

\* the lists of categories asked for: each category at most once
CategoryLists ==
    {<<>>} \cup { <<c>> : c \in ScrapeCategories }
           \cup { p \in ScrapeCategories \X ScrapeCategories : p[1] # p[2] }

\* scrape_all_categories(categories), in a block or on a scraper that is in
\* no block
scrape_all_categories ==
    /\ scraper.pc \in {"new", "body"}
    /\ scraper.driver # 0 \/ scraper.browsers < MaxBrowsers
    /\ \E categories \in CategoryLists :
          \E r \in ScrapeLoop(scraper, files, categories, 1, EmptyDict,
                               {<<"mkdir", ScraperRace>>}) :   \* get_race_dir
              /\ files' = r.files
              /\ IF r.err = "ok"
                 THEN /\ scraper' = r.s
                      /\ last' = Returned("scrape_all_categories", categories,
                                          [kind |-> "dict", results |-> r.results],
                                          r.attempts)
                 ELSE /\ scraper' = [r.s EXCEPT !.pc = IF scraper.pc = "body"
                                                       THEN "unwinding" ELSE @]
                      /\ last' = Raised("scrape_all_categories", categories,
                                        r.err, "", r.attempts)
    /\ UNCHANGED <<df, game_odds, calls, held>>

\* __exit__, called by the `with` statement on every way out of the block:
\* the end of the block, continue, return, or an error
with_exit ==
    /\ scraper.pc \in {"body", "unwinding"}
    /\ \E how \in (IF scraper.pc = "unwinding" THEN {"error"}
                   ELSE {"normal", "continue", "return"}) :
          scraper' = [Closed(scraper) EXCEPT !.pc = "left", !.how = how]
    /\ UNCHANGED <<df, game_odds, files, calls, last, held>>

\* close_driver called by the user outside a block
close_driver ==
    /\ scraper.pc \in {"new", "left"}
    /\ scraper' = Closed(scraper)
    /\ UNCHANGED <<df, game_odds, files, calls, last, held>>

\* __del__: `if self.driver: self.close_driver()`
destructor ==
    /\ scraper.pc \in {"new", "left"}
    /\ scraper' = [(IF scraper.driver # 0 THEN Closed(scraper) ELSE scraper)
                      EXCEPT !.pc = "deleted"]
    /\ UNCHANGED <<df, game_odds, files, calls, last, held>>

\* a new scraper, and no odds file in the data directory yet
InitScraper ==
    /\ df = NoneDf
    /\ game_odds = EmptyDict
    /\ files = [k \in Races \X ScrapeCategories |-> AbsentFile]
    /\ calls = 0
    /\ last = Call("__init__", <<>>, "ok", "", NoRet, {})
    /\ held = NoHeld
    /\ scraper = NewScraper

NextScraper ==
    \/ with_enter
    \/ scrape_odds
    \/ with_exit
    \/ close_driver
    \/ destructor

SpecScraper == InitScraper /\ [][NextScraper]_vars

\* the scraper with scrape_all_categories as the one scrape of a block, as in
\* the example at the end of f1_odds_scraper.py, or called outside a block
NextScrapeAll ==
    \/ with_enter
    \/ scrape_all_categories
    \/ with_exit

SpecScrapeAll == InitScraper /\ [][NextScrapeAll]_vars

----------------------------------------------------------------------------
(* The conversion on its own: odds_to_probability is a static method, and  *)
(* this specification calls it on values of every kind.                    *)

\* largest numerator and denominator of the odds values tried
MaxOddsNum == 8
MaxOddsDen == 4

OddsNumbers ==
    { Norm(n, d) : n \in (-MaxOddsNum) .. MaxOddsNum, d \in 1 .. MaxOddsDen }

OddsInputs ==
    { PyFloat(v) : v \in OddsNumbers \cup {NaN, PosInf, NegInf} }
    \cup { PyStr("num", v) : v \in OddsNumbers }
    \cup { StrFrac(a, b) : a \in 1 .. MaxOddsNum, b \in 1 .. MaxOddsDen }
    \cup { StrNA, StrEmpty, StrWord, StrInf, PyStr("nan", NaN), PyNone, PyList,
            PyDict }

InitOdds ==
    /\ df = NoneDf
    /\ game_odds = EmptyDict
    /\ files = [k \in Races \X Categories |-> AbsentFile]
    /\ calls = 0
    /\ last = Call("__init__", <<>>, "ok", "", NoRet, {})
    /\ held = NoHeld
    /\ scraper = NewScraper

call_odds_to_probability ==
    \E odds \in OddsInputs :
        /\ last' = IF Escapes(odds) = "ok"
                    THEN Returned("odds_to_probability", odds,
                                  [kind |-> "float", v |-> odds_to_probability(odds)], {})
                    ELSE Raised("odds_to_probability", odds, Escapes(odds), "", {})
        /\ UNCHANGED <<df, game_odds, files, calls, held, scraper>>

NextOdds == call_odds_to_probability

SpecOdds == InitOdds /\ [][NextOdds]_vars

----------------------------------------------------------------------------
(* Properties.                                                             *)

Done(op) == last.op = op /\ last.err = "ok"

\* a number taken as decimal odds: a finite float or the text of one
IsOddsNumber(x) ==
    \/ x.t = "float" /\ IsFinite(x.v)
    \/ x.t = "str" /\ x.k = "num"

\* r is exactly 1/(d + 1) for the positive fraction d, and lies in (0, 1)
IsImpliedProbability(r, d) ==
    /\ IsFinite(r)
    /\ r[1] * (d[1] + d[2]) = r[2] * d[2]
    /\ 0 < r[1] /\ r[1] < r[2]

\* C1: odds_to_probability returns exactly 1/(d+1), a value strictly between
\* 0 and 1, for every positive finite odds d given as a number or as numeric
\* text, and returns NaN for d <= 0, for a missing value and for "N/A".
C1_Conversion ==
    last.op = "odds_to_probability" =>
        LET x == last.arg
            r == last.ret.v
        IN  /\ (IsOddsNumber(x) /\ x.v[1] > 0) => IsImpliedProbability(r, x.v)
            /\ (IsOddsNumber(x) /\ x.v[1] <= 0) => IsNaN(r)
            /\ (x = PyNone \/ x = PyFloat(NaN) \/ x = StrNA) => IsNaN(r)

\* the text "1.5" was converted to 1/(1.5 + 1) = 0.4
C1_Witness ==
    /\ last.op = "odds_to_probability"
    /\ last.arg = PyStr("num", <<3, 2>>)
    /\ last.ret.v = <<2, 5>>

\* the provider probability columns of the odds file's providers
ProviderProbabilityCols == {Col(Providers[k], "_probability") : k \in DOMAIN Providers}

\* v is the mean of the defined values among vals, NaN when there are none
IsMeanOfDefined(v, vals) ==
    LET defined == {k \in DOMAIN vals : ~IsNaN(vals[k])}
    IN  IF defined = {} THEN IsNaN(v)
        ELSE /\ IsFinite(v)
             /\ FMul(v, Num(Cardinality(defined))) = SumSeq(SelectSeq(vals, NotNaN))

\* C2: calculate_average_probabilities sets each row's average_probability to
\* the mean of that row's defined per-provider probabilities, undefined
\* entries left out of sum and count, and to NaN when all are undefined.
C2_AverageOfProviders ==
    Done("calculate_average_probabilities") =>
        \A i \in DOMAIN df.rows :
            IsMeanOfDefined(df.rows[i][AverageCol],
                [k \in DOMAIN Providers |-> df.rows[i][Col(Providers[k], "_probability")]])

\* the defined entries of a column, summed
DefinedTotal(col) == SumSeq(SelectSeq(col, NotNaN))
HasDefined(col) == \E i \in DOMAIN col : ~IsNaN(col[i])

\* the table with its normalized column fed back in as the average column
FedBack(d) == SetColumn(d, AverageCol, Column(d, NormalizedCol))

\* C3: after normalize_probabilities on a table with a defined average and a
\* nonzero total, the normalized probabilities sum to 100, and normalizing
\* those values again (as average probabilities) gives a sum of 100 again.
C3_SumIs100 ==
    (/\ Done("normalize_probabilities")
     /\ HasDefined(Column(df, AverageCol))
     /\ DefinedTotal(Column(df, AverageCol)) # Num(0))
    => /\ DefinedTotal(Column(df, NormalizedCol)) = Num(100)
       /\ DefinedTotal(Column(WithNormalized(FedBack(df)), NormalizedCol)) = Num(100)

\* averages 3/8 and 1/4 were normalized to 60 and 40
C3_Witness ==
    /\ Done("normalize_probabilities")
    /\ Column(df, AverageCol) = <<<<3, 8>>, <<1, 4>>>>
    /\ Column(df, NormalizedCol) = <<Num(60), Num(40)>>

\* C4: normalize_probabilities gives a row with a defined average the value
\* average / (sum of the defined averages) * 100 and a row with an undefined
\* average an undefined value; undefined averages add nothing to the sum.
C4_NormalizedValue ==
    Done("normalize_probabilities") =>
        LET total == DefinedTotal(Column(df, AverageCol))
        IN  \A i \in DOMAIN df.rows :
                LET a == df.rows[i][AverageCol]
                    n == df.rows[i][NormalizedCol]
                IN  /\ IsNaN(a) => IsNaN(n)
                    /\ (~IsNaN(a) /\ total # Num(0)) =>
                           IsFinite(n) /\ FMul(n, total) = FMul(a, Num(100))
                    /\ (~IsNaN(a) /\ total = Num(0)) => IsNaN(n)

\* a row without any defined probability next to a row that has one
C4_Witness ==
    /\ Done("normalize_probabilities")
    /\ \E i, j \in DOMAIN df.rows :
          /\ IsNaN(df.rows[i][AverageCol]) /\ IsNaN(df.rows[i][NormalizedCol])
          /\ df.rows[j][AverageCol] = <<1, 4>> /\ df.rows[j][NormalizedCol] = Num(100)

Failed(op) == last.op = op /\ last.err # "ok"

\* the competitor names of a table
TableNames(d) == {d.rows[i][DriverCol] : i \in DOMAIN d.rows}

\* every row of d is in e, as often as in d, with its cells in the columns
\* of d other than the two computed ones
KeepsRows(d, e) ==
    \E idx \in [DOMAIN e.rows -> DOMAIN d.rows] :
        /\ Injective(idx)
        /\ Len(e.rows) = Len(d.rows)
        /\ \A k \in DOMAIN e.rows :
              \A c \in Range(d.columns) \ {PointsCol, XPtsCol} :
                  e.rows[k][c] = d.rows[idx[k]][c]

\* the points and xPts cells of a row are those of the claim
HasExpectedPoints(row, g) ==
    LET name == row[DriverCol]
        pts == row[PointsCol]
        x == row[XPtsCol]
        n == row[NormalizedCol]
    IN  /\ name \in DOMAIN g => pts = Num(g[name])
        /\ name \notin DOMAIN g => IsNaN(pts) /\ IsNaN(x)
        /\ (~IsNaN(pts) /\ ~IsNaN(n)) =>
               IsFinite(x) /\ FMul(x, Num(100)) = FMul(n, pts)

\* C5: a successful calculate_expected_points keeps every row; each row gets
\* points = the game-odds entry of its exact name (NaN without an entry) and
\* xPts = normalized_probability * points / 100 (NaN when points is NaN).
C5_ExpectedPoints ==
    [][ (last'.op = "calculate_expected_points" /\ last'.err = "ok") =>
            /\ KeepsRows(df, df')
            /\ \A k \in DOMAIN df'.rows : HasExpectedPoints(df'.rows[k], game_odds) ]_vars

\* 60 % at 10 points gave 6 expected points, next to a competitor the map
\* lacks, who is still in the table without points
C5_Witness ==
    /\ Done("calculate_expected_points")
    /\ \E i, j \in DOMAIN df.rows :
          /\ df.rows[i][DriverCol] = "Max Verstappen"
          /\ df.rows[i][NormalizedCol] = Num(60)
          /\ df.rows[i][XPtsCol] = Num(6)
          /\ df.rows[j][DriverCol] = "Lando Norris"
          /\ IsNaN(df.rows[j][PointsCol]) /\ IsNaN(df.rows[j][XPtsCol])

\* C6: every cell of every <provider>_probability column of a table made by
\* process_betting_odds is NaN or a value in [0, 1].
C6_ProbabilityRange ==
    ~df.none =>
        \A i \in DOMAIN df.rows : \A c \in ProviderProbabilityCols :
            LET v == df.rows[i][c]
            IN  IsNaN(v) \/ (IsFinite(v) /\ 0 <= v[1] /\ v[1] <= v[2])

\* a loaded table with negative odds, infinite odds and ordinary odds
C6_Witness ==
    /\ Done("process_betting_odds")
    /\ \E i, j \in DOMAIN df.rows :
          /\ df.rows[i][Col("B3", "")] = PyFloat(Num(-3))
          /\ IsNaN(df.rows[i][Col("B3", "_probability")])
          /\ df.rows[j][Col("B3", "")] = PyFloat(PosInf)
          /\ df.rows[j][Col("B3", "_probability")] = Num(0)

\* C7: calculate_expected_points on a loaded table with an empty game-odds
\* map raises a configuration error (ValueError), adds no column, and the
\* error differs in kind from the error of a missing input file.
C7_GameOddsNotSet ==
    [][ (last'.op = "calculate_expected_points" /\ ~df.none /\ DOMAIN game_odds = {}) =>
            /\ last'.err = "ValueError"
            /\ last'.msg = MsgNoGameOdds
            /\ df' = df
            /\ Distinguishable(last'.err, "FileNotFoundError") ]_vars

C7_Witness ==
    /\ Failed("calculate_expected_points")
    /\ ~df.none
    /\ HasColumn(df, NormalizedCol)
    /\ DOMAIN game_odds = {}
    /\ last.msg = MsgNoGameOdds

\* C8: process_betting_odds for a missing odds file raises FileNotFoundError,
\* which differs in kind from a configuration error, and the table of an
\* earlier load stays as it was.
C8_FileNotFound ==
    [][ (/\ last'.op = "process_betting_odds"
         /\ files[<<last'.arg[1], last'.arg[2]>>].absent) =>
            /\ last'.err = "FileNotFoundError"
            /\ Distinguishable(last'.err, "ValueError")
            /\ df' = df ]_vars

\* the load failed while a table of an earlier load is held
C8_Witness ==
    /\ Failed("process_betting_odds")
    /\ last.err = "FileNotFoundError"
    /\ ~df.none
    /\ HasColumn(df, AverageCol)

NeedsTable ==
    {"calculate_average_probabilities", "normalize_probabilities",
     "calculate_expected_points", "get_driver_analysis", "get_top_drivers",
     "save_processed_data"}

\* C9: while no table is loaded, each of the six methods that need one
\* raises a configuration error (ValueError) and does nothing else, whether
\* or not game odds are set.
C9_NoTable ==
    [][ (df.none /\ last'.op \in NeedsTable) =>
            /\ last'.err = "ValueError"
            /\ last'.msg \in {MsgNoDataToSave, MsgNoDataCall, MsgNoDataProcess}
            /\ last'.effects = {}
            /\ UNCHANGED <<df, game_odds, files>> ]_vars

\* expected points were asked for with game odds set and no table
C9_Witness ==
    /\ Failed("calculate_expected_points")
    /\ df.none
    /\ game_odds = TestOdds
    /\ last.msg = MsgNoDataCall

ConfigurationMessages == {MsgNoDataToSave, MsgNoDataCall, MsgNoDataProcess, MsgNoGameOdds}

\* C10 as claimed: a lookup miss in get_driver_analysis raises an error that
\* differs in kind from the configuration error (ValueError).
C10_NotFoundDistinctKind ==
    (last.op = "get_driver_analysis" /\ last.msg = MsgDriverNotFound) =>
        Distinguishable(last.err, "ValueError")

\* C10 as amended: get_driver_analysis matches the name by exact equality;
\* with no such row in the loaded table it raises ValueError with the
\* message "Driver ... not found in data", the kind of the configuration
\* errors, from which it differs by its message only; in kind it differs
\* from the FileNotFoundError of a missing input file.
C10_NotFoundByMessage ==
    (last.op = "get_driver_analysis" /\ ~df.none) =>
        /\ (last.arg \notin TableNames(df)) <=>
               (last.err = "ValueError" /\ last.msg = MsgDriverNotFound)
        /\ (last.arg \notin TableNames(df)) =>
               /\ last.msg \notin ConfigurationMessages
               /\ ~Distinguishable(last.err, "ValueError")
               /\ Distinguishable(last.err, "FileNotFoundError")

\* "max verstappen" was not found in a table that has "Max Verstappen"
C10_Witness ==
    /\ Failed("get_driver_analysis")
    /\ last.arg = "max verstappen"
    /\ "Max Verstappen" \in TableNames(df)
    /\ last.msg = MsgDriverNotFound

\* the position of the named driver's row in table d
RowOf(d, name) == CHOOSE i \in DOMAIN d.rows : d.rows[i][DriverCol] = name

IsFirstRows(t, d, k) ==
    /\ Len(t.rows) = k
    /\ \A i \in 1..k : \A c \in Range(t.columns) : t.rows[i][c] = d.rows[i][c]

\* C12 as stated: on any loaded table get_top_drivers(n), n >= 0, raises no
\* error and returns the first min(n, row count) rows in the table's order.
C12_TopOfLoadedTable ==
    (last.op = "get_top_drivers" /\ ~df.none /\ last.arg >= 0) =>
        /\ last.err = "ok"
        /\ IsFirstRows(last.ret.df, df,
                       IF last.arg < Len(df.rows) THEN last.arg ELSE Len(df.rows))

\* C12: on a loaded table that has the normalized_probability and xPts
\* columns, get_top_drivers(n) with n >= 0 raises no error and returns the
\* Driver, normalized_probability and xPts cells of the first min(n, row
\* count) rows in the table's order, all rows when n exceeds the row count;
\* on a loaded table without one of these columns it raises KeyError.
C12_TopOfProcessedTable ==
    (last.op = "get_top_drivers" /\ ~df.none) =>
        IF HasColumn(df, NormalizedCol) /\ HasColumn(df, XPtsCol)
        THEN last.arg >= 0 =>
                /\ last.err = "ok"
                /\ last.ret.df.columns = <<DriverCol, NormalizedCol, XPtsCol>>
                /\ IsFirstRows(last.ret.df, df,
                               IF last.arg < Len(df.rows) THEN last.arg
                               ELSE Len(df.rows))
        ELSE last.err = "KeyError"

\* more rows were asked for than the two the table has: both came back
C12_Witness ==
    /\ Done("get_top_drivers")
    /\ Len(df.rows) = 2
    /\ last.arg > Len(df.rows)
    /\ Len(last.ret.df.rows) = 2
    /\ last.ret.df.rows[1][DriverCol] = df.rows[1][DriverCol]
    /\ last.ret.df.rows[2][DriverCol] = df.rows[2][DriverCol]

\* C13: odds_to_probability is total: for an input of any kind (number,
\* numeric text, other text, missing value, value of an unexpected type) it
\* raises nothing and returns NaN or a probability between 0 and 1.
C13_Total ==
    last.op = "odds_to_probability" =>
        /\ last.err = "ok"
        /\ \/ IsNaN(last.ret.v)
           \/ /\ IsFinite(last.ret.v)
              /\ 0 <= last.ret.v[1] /\ last.ret.v[1] <= last.ret.v[2]

\* a dict, on which float() raises TypeError, gave NaN and no error
C13_Witness ==
    /\ last.op = "odds_to_probability"
    /\ last.arg = PyDict
    /\ RaisedInTry(last.arg) = "TypeError"
    /\ last.err = "ok"
    /\ IsNaN(last.ret.v)

\* C14: when the defined average probabilities sum to zero (all of them are
\* zero, none is defined, or there are no rows), normalize_probabilities
\* raises no error and every row's normalized_probability is NaN.
C14_ZeroTotal ==
    (/\ last.op = "normalize_probabilities"
     /\ ~df.none
     /\ DefinedTotal(Column(df, AverageCol)) = Num(0))
    => /\ last.err = "ok"
       /\ \A i \in DOMAIN df.rows : IsNaN(df.rows[i][NormalizedCol])

\* a row whose average is a defined zero, next to a row without an average:
\* both got NaN
C14_Witness ==
    /\ Done("normalize_probabilities")
    /\ \E i, j \in DOMAIN df.rows :
          /\ df.rows[i][AverageCol] = Num(0) /\ IsNaN(df.rows[i][NormalizedCol])
          /\ IsNaN(df.rows[j][AverageCol]) /\ IsNaN(df.rows[j][NormalizedCol])

\* the columns no transform derives: Driver, the providers' odds and the
\* providers' probabilities
IsDerivedCol(c) == c \in {AverageCol, NormalizedCol, PointsCol, XPtsCol}

\* C15 as stated: a table a transform has returned keeps its columns, cells
\* and row order whatever transform is invoked afterwards.
C15_ReturnedTableFrozen ==
    held.has => held.cur = held.snap

\* C15: a transform returns the processor's own table object.  A returned
\* table keeps its rows, its row order and its Driver, odds and
\* <provider>_probability cells, and loses no column; while it is still the
\* processor's table, later transforms add or overwrite its derived columns
\* in place; once the processor's table is another object (after the sort of
\* calculate_expected_points or a load) it does not change any more.
C15_ReturnedTableShared ==
    [][held'.has =>
          /\ Len(held'.cur.rows) = Len(held'.snap.rows)
          /\ \A c \in Range(held'.snap.columns) :
                /\ HasColumn(held'.cur, c)
                /\ ~IsDerivedCol(c) =>
                      \A i \in DOMAIN held'.snap.rows :
                          held'.cur.rows[i][c] = held'.snap.rows[i][c]
          /\ held'.alias => held'.cur = df'
          /\ (held.has /\ ~held.alias /\ ~held'.alias) => held' = held]_vars

\* a table kept after process_betting_odds got the derived columns of the
\* later transforms and kept its row order when the processor's table was
\* sorted into another order
C15_Witness ==
    /\ held.has /\ ~held.alias
    /\ ~HasColumn(held.snap, XPtsCol)
    /\ HasColumn(held.cur, XPtsCol)
    /\ held.cur.rows[1][DriverCol] = held.snap.rows[1][DriverCol]
    /\ df.rows[1][DriverCol] # held.cur.rows[1][DriverCol]

\* the odds file the last call named
FileOfLast == files[<<last.arg[1], last.arg[2]>>]

\* C16: after a successful process_betting_odds the table has exactly the
\* columns of the odds file, each cell as read from the file, followed by one
\* column <p>_probability per provider column p holding odds_to_probability
\* of the row's p cell, and no average_probability, normalized_probability,
\* points or xPts column of an earlier table.
C16_LoadedColumns ==
    Done("process_betting_odds") =>
        /\ df.columns = <<DriverCol>>
                          \o [k \in DOMAIN Providers |-> Col(Providers[k], "")]
                          \o [k \in DOMAIN Providers |-> Col(Providers[k], "_probability")]
        /\ Len(df.rows) = Len(FileOfLast.rows)
        /\ \A c \in {AverageCol, NormalizedCol, PointsCol, XPtsCol} : ~HasColumn(df, c)
        /\ \A i \in DOMAIN df.rows :
              /\ DOMAIN df.rows[i] = Range(df.columns)
              /\ df.rows[i][DriverCol] = FileOfLast.rows[i].Driver
              /\ \A k \in DOMAIN Providers :
                    LET cell == df.rows[i][Col(Providers[k], "")]
                    IN  /\ cell = read_csv(FileOfLast).rows[i][Col(Providers[k], "")]
                        /\ df.rows[i][Col(Providers[k], "_probability")]
                              = odds_to_probability(cell)

\* the line 'Lando Norris,3,N/A' after the load: odds 3 with probability 1/4
\* and a missing cell with an undefined probability
C16_Witness ==
    /\ Done("process_betting_odds")
    /\ Len(df.rows) = 2
    /\ df.rows[2][DriverCol] = "Lando Norris"
    /\ df.rows[2][Col("B3", "")] = PyFloat(Num(3))
    /\ df.rows[2][Col("B3", "_probability")] = <<1, 4>>
    /\ df.rows[2][Col("SK", "")] = PyFloat(NaN)
    /\ IsNaN(df.rows[2][Col("SK", "_probability")])

\* C17: the text "a/b" of fractional odds, a and b positive integers, is
\* converted by odds_to_probability to the implied probability b/(a + b).
C17_FractionalText ==
    (last.op = "odds_to_probability" /\ last.arg.t = "str" /\ last.arg.k = "frac") =>
        /\ last.err = "ok"
        /\ last.ret.v = Norm(last.arg.v[2], last.arg.v[1] + last.arg.v[2])

\* C18: in a `with` block of the scraper the driver is set, to the one
\* browser of the block, for the whole body; once the block is left, by its
\* end, by continue or return, or by an error of scrape_odds, that browser
\* has been quit exactly once and self.driver is None, and a later
\* close_driver or destructor call quits no browser a second time.
C18_ScopedDriver ==
    /\ scraper.pc \in {"body", "unwinding"} =>
          /\ scraper.driver # 0
          /\ scraper.driver = scraper.used
          /\ scraper.quits[scraper.used] = 0
    /\ scraper.how \in {"normal", "continue", "return", "error"} =>
          scraper.quits[scraper.used] = 1
    /\ scraper.pc = "left" => scraper.driver = 0
    /\ scraper.pc = "deleted" => scraper.driver = 0
    /\ \A b \in Browsers : scraper.quits[b] <= 1

\* the block was left by an error of scrape_odds and the destructor ran
\* afterwards: the browser of the block was quit once
C18_Witness ==
    /\ scraper.pc = "deleted"
    /\ scraper.how = "error"
    /\ scraper.scraped["qualifying"] = "failed"
    /\ scraper.used # 0
    /\ scraper.quits[scraper.used] = 1
    /\ scraper.driver = 0

\* C19: on a table that has its average_probability and
\* normalized_probability columns, another successful call of
\* calculate_average_probabilities, normalize_probabilities or
\* calculate_expected_points leaves every competitor's average_probability,
\* normalized_probability and (where already computed) xPts as they were.
C19_Idempotent ==
    [][(/\ ~df.none
        /\ HasColumn(df, AverageCol)
        /\ HasColumn(df, NormalizedCol)
        /\ last'.op \in {"calculate_average_probabilities",
                         "normalize_probabilities",
                         "calculate_expected_points"}
        /\ last'.err = "ok")
       => \A i \in DOMAIN df.rows :
             LET j == RowOf(df', df.rows[i][DriverCol])
             IN  /\ df'.rows[j][AverageCol] = df.rows[i][AverageCol]
                 /\ df'.rows[j][NormalizedCol] = df.rows[i][NormalizedCol]
                 /\ HasColumn(df, XPtsCol) =>
                       df'.rows[j][XPtsCol] = df.rows[i][XPtsCol]]_vars

\* a positive finite number, as a float or as the decimal text of one
IsPositiveFinite(x) == IsOddsNumber(x) /\ x.v[1] > 0

\* C20: for every input that is not a positive finite number (other text, a
\* NaN, an infinity as a float or as text) odds_to_probability returns NaN.
C20_UndefinedUnlessPositiveFinite ==
    (last.op = "odds_to_probability" /\ ~IsPositiveFinite(last.arg)) =>
        /\ last.err = "ok"
        /\ IsNaN(last.ret.v)

\* C21: scrape_all_categories raises nothing when a scrape fails: it calls
\* scrape_odds once for every listed category, in the order of the list; a
\* category whose scrape raised has no entry in the returned map, and every
\* category whose scrape returned has exactly its table as its entry (the
\* table saved to the race directory, or the empty table of a page without
\* odds).
C21_ScrapeAll ==
    last.op = "scrape_all_categories" =>
        LET categories == last.arg
            attempts == {a \in last.effects : a[1] = "scrape_odds"}
            returned == {a \in attempts : a[4] = "ok"}
        IN  /\ last.err = "ok"
            /\ Cardinality(attempts) = Len(categories)
            /\ \A k \in DOMAIN categories :
                  \E a \in attempts : a[2] = k /\ a[3] = categories[k]
            /\ DOMAIN last.ret.results = {a[3] : a \in returned}
            /\ \A c \in DOMAIN last.ret.results :
                  \/ /\ last.ret.results[c] \in ScrapedTables
                     /\ last.ret.results[c] = files[<<ScraperRace, c>>]
                  \/ last.ret.results[c] = EmptyTable

\* the first of two categories failed with a timeout, the second was still
\* scraped and is the one entry of the result
C21_Witness ==
    /\ Done("scrape_all_categories")
    /\ last.arg = <<"qualifying", "race-winner">>
    /\ <<"scrape_odds", 1, "qualifying", "TimeoutException">> \in last.effects
    /\ <<"scrape_odds", 2, "race-winner", "ok">> \in last.effects
    /\ DOMAIN last.ret.results = {"race-winner"}
    /\ last.ret.results["race-winner"] \in ScrapedTables

\* C22: a processor operation that ends in an error leaves the table and the
\* game-odds map exactly as they were before the call.
C22_ErrorLeavesState ==
    [][last'.err # "ok" => (df' = df /\ game_odds' = game_odds)]_vars

\* C23: for a competitor of a table that has its average_probability and
\* normalized_probability columns, the provider_probabilities map of
\* get_driver_analysis has exactly one entry per provider of the odds file,
\* keyed by the provider and holding the row's <provider>_probability, and no
\* entry for a derived column.
C23_ProviderProbabilities ==
    (/\ Done("get_driver_analysis")
     /\ HasColumn(df, AverageCol)
     /\ HasColumn(df, NormalizedCol))
    => LET row == df.rows[RowOf(df, last.arg)]
           pp == last.ret.provider_probabilities
       IN  /\ DOMAIN pp = Range(Providers)
           /\ \A p \in Range(Providers) : pp[p] = row[Col(p, "_probability")]

====
